---- MODULE Spec2Model ----
(***************************************************************************)
(* Relationship graph store of the family-tree editor                      *)
(* (FamilyTreeProvider in context/FamilyTreeContext).                      *)
(*                                                                         *)
(* The store keeps one array of Person records.  Every mutation is one     *)
(* setPeople(prev => ...) updater; the operators named ...Updater below    *)
(* are those updaters, translated line by line, and each action applies    *)
(* one of them to the collection.                                          *)
(*                                                                         *)
(* The layout of the collection (calculateLayout in FamilyTreeView) is the *)
(* operator calculateLayout: connected components, a root and a            *)
(* hierarchical placement for each, the loop that places the persons that  *)
(* placement left out, and the offset of each component.                   *)
(***************************************************************************)
EXTENDS Integers, Sequences, FiniteSets, TLC

(* ------------------------------- bounds -------------------------------- *)

\* number of ids crypto.randomUUID() hands out in a run (ids are 1..MaxId)
MaxId == 2

\* cap on the total number of entries in all relationship arrays
MaxLinks == 2

\* number of ids handed out in a run in which the order of the collection is
\* followed
OrderIds == 3

(* ------------------------------ constants ------------------------------ *)

Names == {"Alice", "Bob"}

RelTypes == {"parent", "child", "partner", "spouse"}

RelFields == {"parentIds", "childIds", "partnerIds", "spouseIds"}

PersonFields == {"id", "name"} \cup RelFields

(* ------------------------------- helpers ------------------------------- *)

\* Array.prototype.includes
Includes(ids, x) == \E i \in 1..Len(ids) : ids[i] = x

\* ids.filter((id) => id !== x)
Without(ids, x) == SelectSeq(ids, LAMBDA e : e # x)

\* `${type}Ids`
RelationshipKey(type) ==
  CASE type = "parent"  -> "parentIds"
    [] type = "child"   -> "childIds"
    [] type = "partner" -> "partnerIds"
    [] type = "spouse"  -> "spouseIds"

\* { ...person, ...updates }
Spread(person, updates) ==
  [f \in (DOMAIN person) \cup (DOMAIN updates) |->
     IF f \in DOMAIN updates THEN updates[f] ELSE person[f]]

\* personData.xIds || []
OrEmpty(data, f) == IF f \in DOMAIN data THEN data[f] ELSE <<>>

(* ------------------------------- updaters ------------------------------ *)

\* the Person built by addPerson
NewPerson(personData, uuid) ==
  [f \in (DOMAIN personData) \cup PersonFields |->
     IF f = "id" THEN uuid
     ELSE IF f \in RelFields THEN OrEmpty(personData, f)
     ELSE personData[f]]

\* addPerson as it would be had the new person been put in front
\* ([newPerson, ...prev])
addPersonFirst(prev, newPerson) == <<newPerson>> \o prev

addPersonUpdater(prev, newPerson) == Append(prev, newPerson)

\* updatePerson as it would be had the id test been left out of the map
updatePersonEveryone(prev, id, updates) ==
  [i \in 1..Len(prev) |-> Spread(prev[i], updates)]

updatePersonUpdater(prev, id, updates) ==
  [i \in 1..Len(prev) |->
     IF prev[i].id = id THEN Spread(prev[i], updates) ELSE prev[i]]

\* deletePerson as it would be had spouseIds, the array added to Person last,
\* been left out of the clean-up
deletePersonKeepsSpouseIds(prev, id) ==
  LET updated == SelectSeq(prev, LAMBDA person : person.id # id)
  IN [i \in 1..Len(updated) |->
        [updated[i] EXCEPT !.parentIds  = Without(@, id),
                           !.childIds   = Without(@, id),
                           !.partnerIds = Without(@, id)]]

\* deletePerson as it would be had it put the last person in the place of the
\* deleted one instead of closing the gap
deletePersonSwapRemove(prev, id) ==
  LET updated == SelectSeq(prev, LAMBDA person : person.id # id)
      cleaned == [i \in 1..Len(updated) |->
                    [updated[i] EXCEPT !.parentIds  = Without(@, id),
                                       !.childIds   = Without(@, id),
                                       !.partnerIds = Without(@, id),
                                       !.spouseIds  = Without(@, id)]]
      gap == IF \E i \in 1..Len(prev) : prev[i].id = id
               THEN CHOOSE i \in 1..Len(prev) : prev[i].id = id
             ELSE Len(prev) + 1
  IN [i \in 1..Len(cleaned) |->
        IF i < gap THEN cleaned[i]
        ELSE IF i = gap THEN cleaned[Len(cleaned)]
        ELSE cleaned[i - 1]]

deletePersonUpdater(prev, id) ==
  LET updated == SelectSeq(prev, LAMBDA person : person.id # id)
  IN [i \in 1..Len(updated) |->
        [updated[i] EXCEPT !.parentIds  = Without(@, id),
                           !.childIds   = Without(@, id),
                           !.partnerIds = Without(@, id),
                           !.spouseIds  = Without(@, id)]]

\* the callback of prev.map in addRelationship had it written the forward
\* entry only
addRelationshipMapForward(person, personId, relatedId, type) ==
  LET relationshipKey == RelationshipKey(type)
      ids == person[relationshipKey]
  IN IF person.id = personId /\ ~Includes(ids, relatedId)
       THEN [person EXCEPT ![relationshipKey] = Append(ids, relatedId)]
     ELSE person

\* the callback of prev.map in addRelationship
addRelationshipMap(person, personId, relatedId, type) ==
  LET relationshipKey == RelationshipKey(type)
      ids == person[relationshipKey]
  IN IF person.id = personId /\ ~Includes(ids, relatedId)
       THEN [person EXCEPT ![relationshipKey] = Append(ids, relatedId)]
     ELSE IF type = "parent" /\ person.id = relatedId
             /\ ~Includes(person.childIds, personId)
       THEN [person EXCEPT !.childIds = Append(@, personId)]
     ELSE IF type = "child" /\ person.id = relatedId
             /\ ~Includes(person.parentIds, personId)
       THEN [person EXCEPT !.parentIds = Append(@, personId)]
     ELSE IF type = "partner" /\ person.id = relatedId
             /\ ~Includes(person.partnerIds, personId)
       THEN [person EXCEPT !.partnerIds = Append(@, personId)]
     ELSE IF type = "spouse" /\ person.id = relatedId
             /\ ~Includes(person.spouseIds, personId)
       THEN [person EXCEPT !.spouseIds = Append(@, personId)]
     ELSE person

addRelationshipUpdater(prev, personId, relatedId, type) ==
  [i \in 1..Len(prev) |->
     addRelationshipMap(prev[i], personId, relatedId, type)]

\* the callback of prev.map in removeRelationship
removeRelationshipMap(person, personId, relatedId, type) ==
  LET relationshipKey == RelationshipKey(type)
  IN IF person.id = personId
       THEN [person EXCEPT ![relationshipKey] = Without(@, relatedId)]
     ELSE IF type = "parent" /\ person.id = relatedId
       THEN [person EXCEPT !.childIds = Without(@, personId)]
     ELSE IF type = "child" /\ person.id = relatedId
       THEN [person EXCEPT !.parentIds = Without(@, personId)]
     ELSE IF type = "partner" /\ person.id = relatedId
       THEN [person EXCEPT !.partnerIds = Without(@, personId)]
     ELSE IF type = "spouse" /\ person.id = relatedId
       THEN [person EXCEPT !.spouseIds = Without(@, personId)]
     ELSE person

removeRelationshipUpdater(prev, personId, relatedId, type) ==
  [i \in 1..Len(prev) |->
     removeRelationshipMap(prev[i], personId, relatedId, type)]

(* ------------------------- storage (services) -------------------------- *)

\* the value of a property that holds undefined
Undefined == "undefined"

\* person[f] as JavaScript reads it: undefined when the key is absent
Get(person, f) == IF f \in DOMAIN person THEN person[f] ELSE Undefined

\* value || fallback for a string read from a document
OrElse(value, fallback) ==
  IF value = Undefined \/ value = "" THEN fallback ELSE value

\* the optional fields of Person the model carries (strings or undefined)
OptionalFields == {"notes", "photo"}

\* JSON.parse(JSON.stringify(person)): the keys that hold undefined are left
\* out of the text, strings and arrays of strings come back as they were
jsonPerson(person) ==
  [f \in {g \in DOMAIN person :
            g \notin OptionalFields \/ person[g] # Undefined} |-> person[f]]

\* the `people` of JSON.parse(JSON.stringify({ version, people }))
jsonPeople(ps) == [i \in 1..Len(ps) |-> jsonPerson(ps[i])]

\* the callback of familyTree.people.map in importFamilyTree had it written
\* photo: undefined
importPersonNoPhoto(person) ==
  [f \in (DOMAIN person) \cup RelFields \cup {"photo"} |->
     IF f \in RelFields THEN OrEmpty(person, f)
     ELSE IF f = "photo" THEN Undefined
     ELSE person[f]]

\* the callback of familyTree.people.map in importFamilyTree (and, the same,
\* in loadFamilyTree)
importPerson(person) ==
  [f \in (DOMAIN person) \cup RelFields \cup {"photo"} |->
     IF f \in RelFields THEN OrEmpty(person, f)
     ELSE IF f = "photo" THEN OrElse(Get(person, f), Undefined)
     ELSE person[f]]

\* the text exportFamilyTree hands to the download, as its parsed `people`
exportFamilyTree(ps) == jsonPeople(ps)

\* the collection importFamilyTree resolves with for a document's `people`
importFamilyTree(docPeople) ==
  [i \in 1..Len(docPeople) |-> importPerson(docPeople[i])]

\* the collection loadFamilyTree returns: [] when nothing is stored, else the
\* stored persons with the same back-fill as importFamilyTree
loadFamilyTree(stored) ==
  [i \in 1..Len(stored.people) |-> importPerson(stored.people[i])]

\* saveFamilyTree: localStorage.setItem either stores the document or throws
\* (quota exceeded), and the catch block throws 'Failed to save family tree
\* data'.  `stored` is what localStorage holds under STORAGE_KEY.
saveFamilyTree(stored, ps, setItemThrows) ==
  IF setItemThrows
    THEN [stored EXCEPT !.raised = TRUE]
  ELSE [written |-> TRUE, people |-> jsonPeople(ps), raised |-> FALSE]

\* the save effect on the initial mount had it not been skipped
mountEffectSaves(stored, ps) == saveFamilyTree(stored, ps, FALSE)

\* the save effect on the initial mount: isInitialMount.current is true, the
\* effect clears it and returns without saving
mountEffect(stored, ps) == stored

\* clearFamilyTree: localStorage.removeItem takes the document away; an error
\* it throws is logged and swallowed.  `written` (saveFamilyTree has stored a
\* document since the provider was constructed) and `raised` stay as they are.
clearFamilyTree(stored, removeItemThrows) ==
  IF removeItemThrows THEN stored ELSE [stored EXCEPT !.people = <<>>]

\* no file has been downloaded
NoFile == [downloaded |-> FALSE, people |-> <<>>, exported |-> <<>>,
           reading |-> FALSE]

\* localStorage before the provider is constructed for the first time
NothingStored == [written |-> FALSE, people |-> <<>>, raised |-> FALSE]

\* the state a setPeople((prev) => ...) updater would get had the handler
\* passed a value built from the `people` of its closure instead
prevPeopleOfClosure(queued, closure) == closure

\* the state React hands a setPeople((prev) => ...) updater: the result of
\* the updaters queued before it, not the `people` of the render
prevPeople(queued, closure) == queued

(* -------------------------------- state -------------------------------- *)

VARIABLES
  people,   \* the Person[] held by useState, every queued updater applied
  nextId,   \* the next id crypto.randomUUID() returns (never repeats)
  last,     \* the store operation that produced this state
  rendered, \* the `people` of the latest render, which the provider's
            \* closures (getPerson) and the components read
  storage,  \* what localStorage holds under STORAGE_KEY (the `people` of the
            \* document, whether one was written since start-up) and whether
            \* the last saveFamilyTree call threw
  queued,   \* a setPeople call has been made since the latest render: the
            \* state is a new array and React will render the provider again
  file,     \* the file exportFamilyTree has downloaded, the collection it
            \* was made of, and whether a FileReader is reading it
  mounted   \* the provider is mounted: no error has left one of its effects
            \* since it was constructed

vars == <<people, nextId, last, rendered, storage, queued, file, mounted>>

\* ids a caller can name: the ids issued so far (of present or deleted persons)
KnownIds == 1..(nextId - 1)

\* arrays a caller can pass for a relationship field
RelInputs == {<<>>} \cup {<<i>> : i \in KnownIds}

\* addPerson arguments as handleFormSubmit passes them: the form fields and
\* three empty arrays (no spouseIds)
PlainData ==
  {[name |-> n, parentIds |-> <<>>, childIds |-> <<>>, partnerIds |-> <<>>] :
   n \in Names}

\* addPerson arguments that supply one relationship array and leave the
\* others out
LinkedData ==
  UNION {{[name |-> n, parentIds  |-> l], [name |-> n, childIds  |-> l],
          [name |-> n, partnerIds |-> l], [name |-> n, spouseIds |-> l]} :
         n \in Names, l \in RelInputs}

\* updatePerson arguments that carry form fields only
PlainUpdates == {[name |-> n] : n \in Names}

\* updatePerson arguments that carry an id or a relationship array
RawUpdates ==
  {[id |-> i] : i \in KnownIds}
  \cup UNION {{[parentIds  |-> l], [childIds  |-> l],
               [partnerIds |-> l], [spouseIds |-> l]} : l \in RelInputs}

\* total number of entries in the relationship arrays of a collection
RECURSIVE Links(_)
Links(ps) ==
  IF ps = <<>> THEN 0
  ELSE Len(Head(ps).parentIds) + Len(Head(ps).childIds)
       + Len(Head(ps).partnerIds) + Len(Head(ps).spouseIds) + Links(Tail(ps))

\* a person with this id is in the collection
Present(ps, id) == \E i \in 1..Len(ps) : ps[i].id = id

\* a person with id a holds b in its array `key`
Lists(ps, a, key, b) ==
  \E i \in 1..Len(ps) : ps[i].id = a /\ Includes(ps[i][key], b)

\* a person other than id holds id in one of its four arrays
ReferencedByOther(ps, id) ==
  \E i \in 1..Len(ps) :
    ps[i].id # id /\ \E key \in RelFields : Includes(ps[i][key], id)

Init ==
  /\ people = <<>>
  /\ nextId = 1
  /\ last = [op |-> "init", id |-> 0]
  /\ rendered = <<>>
  /\ storage = mountEffect(NothingStored, people)
  /\ queued = FALSE
  /\ file = NoFile
  /\ mounted = TRUE

\* addPerson, crypto.randomUUID() handing out the ids 1..maxId
AddPersonWithin(maxId, personData) ==
  /\ mounted
  /\ nextId <= maxId
  /\ people' = addPersonUpdater(prevPeople(people, rendered),
                         NewPerson(personData, nextId))
  /\ Links(people') <= MaxLinks
  /\ nextId' = nextId + 1
  /\ last' = [op |-> "addPerson", id |-> nextId]
  /\ queued' = TRUE
  /\ UNCHANGED <<rendered, storage, file, mounted>>

AddPerson(personData) == AddPersonWithin(MaxId, personData)

UpdatePerson(id, updates) ==
  /\ mounted
  /\ people' = updatePersonUpdater(prevPeople(people, rendered),
                         id, updates)
  /\ Links(people') <= MaxLinks
  /\ last' = [op |-> "updatePerson", id |-> id, changed |-> people' # people]
  /\ queued' = TRUE
  /\ UNCHANGED <<nextId, rendered, storage, file, mounted>>

DeletePerson(id) ==
  /\ mounted
  /\ people' = deletePersonUpdater(prevPeople(people, rendered),
                         id)
  /\ last' = [op |-> "deletePerson", id |-> id,
              cascaded |-> ReferencedByOther(people, id)]
  /\ queued' = TRUE
  /\ UNCHANGED <<nextId, rendered, storage, file, mounted>>

\* addRelationship, the collection kept to maxLinks entries
AddRelationshipWithin(maxLinks, personId, relatedId, type) ==
  /\ mounted
  /\ people' = addRelationshipUpdater(prevPeople(people, rendered),
                         personId, relatedId, type)
  /\ Links(people') <= maxLinks
  /\ last' = [op |-> "addRelationship", id |-> personId]
  /\ queued' = TRUE
  /\ UNCHANGED <<nextId, rendered, storage, file, mounted>>

AddRelationship(personId, relatedId, type) ==
  AddRelationshipWithin(MaxLinks, personId, relatedId, type)

RemoveRelationship(personId, relatedId, type) ==
  /\ mounted
  /\ people' = removeRelationshipUpdater(prevPeople(people, rendered),
                         personId, relatedId, type)
  /\ last' = [op |-> "removeRelationship", id |-> personId]
  /\ queued' = TRUE
  /\ UNCHANGED <<nextId, rendered, storage, file, mounted>>

\* React renders the provider again with the state the queued updaters gave
\* and runs the save effect, whose dependency `people` is a new array even
\* when the updaters changed no value.  The effect calls saveFamilyTree
\* outside any try block, so the error saveFamilyTree throws leaves the
\* effect; no component of the application is an error boundary, and React
\* takes down the tree an effect's error came out of uncaught: the provider
\* is unmounted and the state its useState held goes with it.
Render(setItemThrows) ==
  /\ mounted
  /\ queued
  /\ queued' = FALSE
  /\ storage' = saveFamilyTree(storage, people, setItemThrows)
  /\ mounted' = ~storage'.raised
  /\ people' = IF mounted' THEN people ELSE <<>>
  /\ rendered' = people'
  /\ last' = [op |-> "render", id |-> 0, setItemThrows |-> setItemThrows,
              saving |-> people]
  /\ UNCHANGED <<nextId, file>>

\* the page is loaded again after the provider came down: a new provider is
\* constructed, useState takes what loadFamilyTree returns for the document
\* localStorage holds, and the save effect of the initial mount is skipped
Mount ==
  /\ ~mounted
  /\ mounted' = TRUE
  /\ people' = loadFamilyTree(storage)
  /\ rendered' = people'
  /\ queued' = FALSE
  /\ storage' = mountEffect([storage EXCEPT !.written = FALSE,
                                            !.raised = FALSE], people')
  /\ last' = [op |-> "mount", id |-> 0]
  /\ UNCHANGED <<nextId, file>>

\* getPerson: people.find over the `people` of the render that made the closure
GetPerson(id) ==
  /\ mounted
  /\ last' = [op |-> "getPerson", id |-> id,
              found |-> Present(rendered, id)]
  /\ UNCHANGED <<people, nextId, rendered, storage, queued, file, mounted>>

\* clearFamilyTree, which a caller of the storage service can run at any time
ClearFamilyTree(removeItemThrows) ==
  /\ storage' = clearFamilyTree(storage, removeItemThrows)
  /\ last' = [op |-> "clearFamilyTree", id |-> 0]
  /\ UNCHANGED <<people, nextId, rendered, queued, file, mounted>>

\* the store driven with form fields, as the application's own callers do
Next ==
  \/ \E personData \in PlainData : AddPerson(personData)
  \/ \E id \in KnownIds, updates \in PlainUpdates : UpdatePerson(id, updates)
  \/ \E id \in KnownIds : DeletePerson(id)
  \/ \E personId \in KnownIds, relatedId \in KnownIds, type \in RelTypes :
       AddRelationship(personId, relatedId, type)
  \/ \E personId \in KnownIds, relatedId \in KnownIds, type \in RelTypes :
       RemoveRelationship(personId, relatedId, type)

Spec == Init /\ [][Next]_vars

\* the relationship type of the calls made while the order of the collection
\* is followed (every type goes through the same prev.map)
OrderTypes == {"parent"}

\* the same callers with room for OrderIds persons, so that a deletion
\* leaves several persons behind and persons are added after it
NextOrder ==
  \/ \E personData \in PlainData : AddPersonWithin(OrderIds, personData)
  \/ \E id \in KnownIds, updates \in PlainUpdates : UpdatePerson(id, updates)
  \/ \E id \in KnownIds : DeletePerson(id)
  \/ \E personId \in KnownIds, relatedId \in KnownIds, type \in OrderTypes :
       AddRelationship(personId, relatedId, type)
  \/ \E personId \in KnownIds, relatedId \in KnownIds, type \in OrderTypes :
       RemoveRelationship(personId, relatedId, type)

SpecOrder == Init /\ [][NextOrder]_vars

\* the store driven with every argument its signatures admit
\* (Omit<Person, 'id'> and Partial<Person>)
NextApi ==
  \/ \E personData \in PlainData \cup LinkedData : AddPerson(personData)
  \/ \E id \in KnownIds, updates \in PlainUpdates \cup RawUpdates :
       UpdatePerson(id, updates)
  \/ \E id \in KnownIds : DeletePerson(id)
  \/ \E personId \in KnownIds, relatedId \in KnownIds, type \in RelTypes :
       AddRelationship(personId, relatedId, type)
  \/ \E personId \in KnownIds, relatedId \in KnownIds, type \in RelTypes :
       RemoveRelationship(personId, relatedId, type)

SpecApi == Init /\ [][NextApi]_vars

\* the store's callers between renders: a handler adds, renames or deletes
\* persons and reads with getPerson; React renders after the handler returns
NextRender ==
  \/ \E personData \in PlainData : AddPerson(personData)
  \/ \E id \in KnownIds, updates \in PlainUpdates : UpdatePerson(id, updates)
  \/ \E id \in KnownIds : DeletePerson(id)
  \/ \E id \in KnownIds : GetPerson(id)
  \/ \E setItemThrows \in BOOLEAN : Render(setItemThrows)
  \/ Mount
  \/ \E removeItemThrows \in BOOLEAN : ClearFamilyTree(removeItemThrows)

SpecRender == Init /\ [][NextRender]_vars

(* ----------------------- layout (FamilyTreeView) ----------------------- *)

nodeWidth == 180

nodeHeight == 120

\* horizontal spacing between disconnected components
componentSpacing == 400

\* the padding of isPositionOccupied
padding == 10

\* settings handed to the hierarchical layout
firstDegreeSpacing == 250

sourceTargetSpacing == 200

nextAfterSpacing == 150

\* people.find((p) => p.id === personId), for an id that is present
Find(ps, id) == ps[CHOOSE i \in 1..Len(ps) : ps[i].id = id /\ \A j \in 1..(i - 1) : ps[j].id # id]

\* [...person.partnerIds, ...person.spouseIds]
allPartners(person) == person.partnerIds \o person.spouseIds

\* Math.max(...values)
MathMax(values) == CHOOSE m \in values : \A v \in values : v <= m

\* the dfs closure of findConnectedComponents; st is [visited, component]
RECURSIVE dfs(_, _, _)
RECURSIVE dfsForEach(_, _, _)
dfs(ps, personId, st) ==
  IF personId \in st.visited THEN st
  ELSE LET marked == [st EXCEPT !.visited = @ \cup {personId}]
       IN IF ~Present(ps, personId) THEN marked
          ELSE LET person == Find(ps, personId)
                   pushed == [marked EXCEPT !.component = Append(@, person)]
                   viaParents == dfsForEach(ps, person.parentIds, pushed)
                   viaChildren == dfsForEach(ps, person.childIds, viaParents)
               IN dfsForEach(ps, allPartners(person), viaChildren)

\* ids.forEach((id) => { if (!visited.has(id)) dfs(id, component) })
dfsForEach(ps, ids, st) ==
  IF ids = <<>> THEN st
  ELSE dfsForEach(ps, Tail(ids),
                  IF Head(ids) \in st.visited THEN st ELSE dfs(ps, Head(ids), st))

\* the people.forEach of findConnectedComponents, from person i on
RECURSIVE componentsFrom(_, _, _, _)
componentsFrom(ps, i, visited, components) ==
  IF i > Len(ps) THEN components
  ELSE IF ps[i].id \in visited
    THEN componentsFrom(ps, i + 1, visited, components)
  ELSE LET st == dfs(ps, ps[i].id, [visited |-> visited, component |-> <<>>])
       IN componentsFrom(ps, i + 1, st.visited,
                         IF Len(st.component) > 0
                           THEN Append(components, st.component)
                           ELSE components)

findConnectedComponents(ps) == componentsFrom(ps, 1, {}, <<>>)

rootNodes(component) ==
  SelectSeq(component, LAMBDA person : Len(person.parentIds) = 0)

\* the root as it would be had the fallback been taken always
rootIdFirstMember(component) == component[1].id

rootId(component) ==
  IF Len(rootNodes(component)) > 0 THEN rootNodes(component)[1].id
  ELSE component[1].id

componentPersonIds(component) == {component[i].id : i \in 1..Len(component)}

\* treeMap: people.forEach((person) => { treeMap[person.id] = {...} }) over
\* the whole collection, so the entry of an id is made from the last person
\* that has it
treeMap(ps) ==
  [id \in {ps[i].id : i \in 1..Len(ps)} |->
     LET person == ps[CHOOSE i \in 1..Len(ps) :
                        /\ ps[i].id = id
                        /\ \A j \in (i + 1)..Len(ps) : ps[j].id # id]
     IN [children |-> person.childIds,
         parents  |-> person.parentIds,
         spouses  |-> allPartners(person)]]

\* componentTreeMap: for each person of the component, the entry treeMap
\* holds for its id, with the spouses that are in the component
componentTreeMap(ps, component) ==
  [id \in componentPersonIds(component) |->
     [treeMap(ps)[id] EXCEPT
        !.spouses = SelectSeq(@, LAMBDA spouseId :
                                   spouseId \in componentPersonIds(component))]]

\* laidOutNodesMap is a sequence of [id, x, y] in insertion order
Has(nodes, id) == \E i \in 1..Len(nodes) : nodes[i].id = id

NodeOf(nodes, id) == nodes[CHOOSE i \in 1..Len(nodes) : nodes[i].id = id]

isPositionOccupied(nodes, x, y) ==
  \E i \in 1..Len(nodes) :
    /\ x < nodes[i].x + nodeWidth + padding
    /\ x + nodeWidth > nodes[i].x - padding
    /\ y < nodes[i].y + nodeHeight + padding
    /\ y + nodeHeight > nodes[i].y - padding

offsets(preferHorizontal) ==
  IF preferHorizontal
    THEN << [x |-> nodeWidth + 150,    y |-> 0],
            [x |-> -(nodeWidth + 150), y |-> 0],
            [x |-> nodeWidth + 150,    y |-> nodeHeight + 200],
            [x |-> -(nodeWidth + 150), y |-> nodeHeight + 200] >>
    ELSE << [x |-> 0,                  y |-> nodeHeight + 200],
            [x |-> nodeWidth + 150,    y |-> 0],
            [x |-> -(nodeWidth + 150), y |-> 0],
            [x |-> 0,                  y |-> -(nodeHeight + 200)] >>

\* findAvailablePosition as it would be had it returned the target unprobed
findAvailablePositionAtTarget(nodes, targetX, targetY, preferHorizontal) ==
  [x |-> targetX, y |-> targetY]

findAvailablePosition(nodes, targetX, targetY, preferHorizontal) ==
  IF ~isPositionOccupied(nodes, targetX, targetY)
    THEN [x |-> targetX, y |-> targetY]
  ELSE LET offs == offsets(preferHorizontal)
           free == {k \in 1..Len(offs) :
                      ~isPositionOccupied(nodes, targetX + offs[k].x,
                                          targetY + offs[k].y)}
       IN IF free # {}
            THEN LET k == CHOOSE k \in free : \A j \in free : k <= j
                 IN [x |-> targetX + offs[k].x, y |-> targetY + offs[k].y]
          ELSE IF Len(nodes) > 0
            THEN LET maxX == MathMax({nodes[i].x + nodeWidth : i \in 1..Len(nodes)})
                 IN [x |-> maxX + nodeWidth + 150, y |-> targetY]
          ELSE [x |-> targetX, y |-> targetY]

\* ids of the list that the map holds and that have no position yet
unplaced(map, ids, nodes) ==
  {ids[i] : i \in 1..Len(ids)} \cap {id \in DOMAIN map : ~Has(nodes, id)}

\* nominal position of the k-th of `total` relations of one kind of a placed
\* node: spouses side by side to its right, children one level below and
\* parents one level above, spread evenly and centred on it
nominalPosition(anchor, kind, total, k) ==
  IF kind = "spouse"
    THEN [x |-> anchor.x + k * (nodeWidth + nextAfterSpacing), y |-> anchor.y]
  ELSE [x |-> anchor.x
                + (2 * k - total - 1) * ((nodeWidth + firstDegreeSpacing) \div 2),
        y |-> IF kind = "child"
                THEN anchor.y + nodeHeight + sourceTargetSpacing
                ELSE anchor.y - nodeHeight - sourceTargetSpacing]

\* commit the relations of one kind of a placed node, in list order
RECURSIVE placeKin(_, _, _, _, _, _, _)
placeKin(map, ids, anchor, kind, total, done, nodes) ==
  IF ids = <<>> THEN nodes
  ELSE IF Head(ids) \notin DOMAIN map \/ Has(nodes, Head(ids))
    THEN placeKin(map, Tail(ids), anchor, kind, total, done, nodes)
  ELSE LET nominal == nominalPosition(anchor, kind, total, done + 1)
           position == findAvailablePosition(nodes, nominal.x, nominal.y,
                                             kind = "spouse")
       IN placeKin(map, Tail(ids), anchor, kind, total, done + 1,
                   Append(nodes, [id |-> Head(ids),
                                  x |-> position.x, y |-> position.y]))

\* breadth-first walk from the root over spouses, children and parents
RECURSIVE layoutWalk(_, _, _)
layoutWalk(map, queue, nodes) ==
  IF queue = <<>> THEN nodes
  ELSE LET anchor == NodeOf(nodes, Head(queue))
           entry == map[anchor.id]
           withSpouses ==
             placeKin(map, entry.spouses, anchor, "spouse",
                      Cardinality(unplaced(map, entry.spouses, nodes)), 0, nodes)
           withChildren ==
             placeKin(map, entry.children, anchor, "child",
                      Cardinality(unplaced(map, entry.children, withSpouses)), 0,
                      withSpouses)
           withParents ==
             placeKin(map, entry.parents, anchor, "parent",
                      Cardinality(unplaced(map, entry.parents, withChildren)), 0,
                      withChildren)
       IN layoutWalk(map,
                     Tail(queue) \o [i \in 1..(Len(withParents) - Len(nodes)) |->
                                       withParents[Len(nodes) + i].id],
                     withParents)

\* the hierarchical placement of one component (the layout library's
\* layoutFromMap): the root at the origin, then every person the walk reaches
layoutFromMap(root, map) ==
  layoutWalk(map, <<root>>, <<[id |-> root, x |-> 0, y |-> 0]>>)

\* component.filter((person) => !laidOutNodesMap.has(person.id))
missingPeople(component, nodes) ==
  SelectSeq(component, LAMBDA person : ~Has(nodes, person.id))

\* ids.map((id) => laidOutNodesMap.get(id)).filter((node) => node !== undefined)
laidOutOf(ids, nodes) ==
  LET found == SelectSeq(ids, LAMBDA id : Has(nodes, id))
  IN [i \in 1..Len(found) |-> NodeOf(nodes, found[i])]

\* otherParents.reduce(...): the first of the nodes with the largest x
rightmost(parents) ==
  parents[CHOOSE i \in 1..Len(parents) :
            /\ \A j \in 1..Len(parents) : parents[j].x <= parents[i].x
            /\ \A j \in 1..(i - 1) : parents[j].x < parents[i].x]

\* the callback as it would be had it gone to the default slot whatever
\* relatives are placed
missingPositionDefault(component, person, nodes) ==
  IF Len(nodes) > 0
    THEN LET maxX == MathMax({nodes[i].x + nodeWidth : i \in 1..Len(nodes)})
             maxY == MathMax({nodes[i].y : i \in 1..Len(nodes)})
         IN findAvailablePosition(nodes, maxX + nodeWidth + 150, maxY, FALSE)
    ELSE [x |-> 0, y |-> 0]

\* the position the missingPeople.forEach callback gives one person
missingPosition(component, person, nodes) ==
  LET parentNodes  == laidOutOf(person.parentIds, nodes)
      childNodes   == laidOutOf(person.childIds, nodes)
      partnerNodes == laidOutOf(allPartners(person), nodes)
  IN IF Len(parentNodes) > 0
       THEN LET parentNode == parentNodes[1]
                targetY == parentNode.y + nodeHeight + 200
            IN IF Len(childNodes) > 0
                 THEN findAvailablePosition(nodes, parentNode.x,
                                            childNodes[1].y - nodeHeight - 200,
                                            FALSE)
                 ELSE findAvailablePosition(nodes, parentNode.x, targetY, FALSE)
     ELSE IF Len(childNodes) > 0
       THEN LET childNode == childNodes[1]
                targetY == childNode.y - nodeHeight - 200
            IN IF Present(component, childNode.id)
                 THEN LET child == Find(component, childNode.id)
                          otherParents ==
                            laidOutOf(SelectSeq(child.parentIds,
                                                LAMBDA pid : pid # person.id),
                                      nodes)
                      IN IF Len(otherParents) > 0
                           THEN findAvailablePosition(
                                  nodes,
                                  rightmost(otherParents).x + nodeWidth + 150,
                                  rightmost(otherParents).y, TRUE)
                           ELSE findAvailablePosition(nodes, childNode.x,
                                                      targetY, FALSE)
                 ELSE findAvailablePosition(nodes, childNode.x, targetY, FALSE)
     ELSE IF Len(partnerNodes) > 0
       THEN findAvailablePosition(nodes, partnerNodes[1].x + nodeWidth + 150,
                                  partnerNodes[1].y, TRUE)
     ELSE IF Len(nodes) > 0
       THEN LET maxX == MathMax({nodes[i].x + nodeWidth : i \in 1..Len(nodes)})
                maxY == MathMax({nodes[i].y : i \in 1..Len(nodes)})
            IN findAvailablePosition(nodes, maxX + nodeWidth + 150, maxY, FALSE)
     ELSE [x |-> 0, y |-> 0]

\* laidOutNodesMap.set(person.id, ...): a new key goes last, a key that is
\* there keeps its place
MapSet(nodes, node) ==
  IF Has(nodes, node.id)
    THEN [i \in 1..Len(nodes) |-> IF nodes[i].id = node.id THEN node ELSE nodes[i]]
    ELSE Append(nodes, node)

\* missingPeople.forEach(...)
RECURSIVE missingForEach(_, _, _)
missingForEach(component, missing, nodes) ==
  IF missing = <<>> THEN nodes
  ELSE LET position == missingPosition(component, Head(missing), nodes)
       IN missingForEach(component, Tail(missing),
                         MapSet(nodes, [id |-> Head(missing).id,
                                        x |-> position.x, y |-> position.y]))

\* the loop as it would be had it never run (the persons the hierarchical
\* placement did not reach get no node)
skipMissing(component, nodes) == nodes

\* while (missingPeople.length > 0) { ... }
RECURSIVE whileMissing(_, _)
whileMissing(component, nodes) ==
  IF Len(missingPeople(component, nodes)) > 0
    THEN whileMissing(component,
                      missingForEach(component, missingPeople(component, nodes),
                                     nodes))
    ELSE nodes

\* laidOutNodesMap of one component when the loop has ended
laidOutNodesMap(ps, component) ==
  whileMissing(component,
               layoutFromMap(rootId(component),
                             componentTreeMap(ps, component)))

componentWidth(nodes) ==
  IF Len(nodes) > 0
    THEN MathMax({nodes[i].x + nodeWidth : i \in 1..Len(nodes)})
    ELSE 0

\* components.forEach(...): the nodes of the components, each at its offset
RECURSIVE componentsForEach(_, _, _, _)
componentsForEach(ps, components, currentXOffset, allNodes) ==
  IF components = <<>> THEN allNodes
  ELSE LET nodes == laidOutNodesMap(ps, Head(components))
           componentNodes ==
             [i \in 1..Len(nodes) |->
                [id |-> nodes[i].id,
                 x |-> nodes[i].x + currentXOffset, y |-> nodes[i].y]]
       IN componentsForEach(ps, Tail(components),
                            currentXOffset + componentWidth(nodes)
                              + componentSpacing,
                            allNodes \o componentNodes)

\* the nodes calculateLayout returns
calculateLayout(ps) ==
  IF Len(ps) = 0 THEN <<>>
  ELSE componentsForEach(ps, findConnectedComponents(ps), 0, <<>>)

\* the edge pushed for one entry of childIds; its id is the template string
\* `edge-${person.id}-${childId}`, an id being written as its numeral
parentChildEdge(person, childId) ==
  [id |-> "edge-" \o ToString(person.id) \o "-" \o ToString(childId),
   source |-> person.id, target |-> childId, type |-> "smoothstep"]

\* person.childIds.forEach as it would be without the nodeIds.has(childId)
\* test
RECURSIVE childIdsForEachUnchecked(_, _, _, _)
childIdsForEachUnchecked(person, childIds, nodes, allEdges) ==
  IF childIds = <<>> THEN allEdges
  ELSE childIdsForEachUnchecked(
         person, Tail(childIds), nodes,
         Append(allEdges, parentChildEdge(person, Head(childIds))))

\* person.childIds.forEach((childId) => { if (nodeIds.has(childId)) push })
RECURSIVE childIdsForEach(_, _, _, _)
childIdsForEach(person, childIds, nodes, allEdges) ==
  IF childIds = <<>> THEN allEdges
  ELSE childIdsForEach(
         person, Tail(childIds), nodes,
         IF Has(nodes, Head(childIds))
           THEN Append(allEdges, parentChildEdge(person, Head(childIds)))
           ELSE allEdges)

\* the first people.forEach of the edge construction (parent-child edges)
RECURSIVE parentChildEdges(_, _, _)
parentChildEdges(ps, nodes, allEdges) ==
  IF ps = <<>> THEN allEdges
  ELSE parentChildEdges(
         Tail(ps), nodes,
         IF ~Has(nodes, Head(ps).id) THEN allEdges
         ELSE childIdsForEach(Head(ps), Head(ps).childIds, nodes, allEdges))

\* the edge pushed for one entry of [...partnerIds, ...spouseIds]; its id is
\* the template string `edge-partner-${person.id}-${partnerId}`
partnerEdge(person, partnerId) ==
  [id |-> "edge-partner-" \o ToString(person.id) \o "-"
            \o ToString(partnerId),
   source |-> person.id, target |-> partnerId, type |-> "horizontal"]

\* a < b for two id strings: the ids are UUIDs, and `order` holds the pairs
\* <<a, b>> of compared ids whose strings sort a before b, which has nothing
\* to do with the order of creation (false for a pair the order leaves out:
\* an id compared with itself or with the id of no person)
StringLess(order, a, b) == <<a, b>> \in order

\* allPartners.forEach((partnerId) => {
\*   if (person.id < partnerId && nodeIds.has(partnerId)) push })
RECURSIVE allPartnersForEach(_, _, _, _, _)
allPartnersForEach(person, partnerIds, nodes, order, allEdges) ==
  IF partnerIds = <<>> THEN allEdges
  ELSE allPartnersForEach(
         person, Tail(partnerIds), nodes, order,
         IF StringLess(order, person.id, Head(partnerIds))
            /\ Has(nodes, Head(partnerIds))
           THEN Append(allEdges, partnerEdge(person, Head(partnerIds)))
           ELSE allEdges)

\* the second people.forEach of the edge construction (partner edges)
RECURSIVE partnerEdges(_, _, _, _)
partnerEdges(ps, nodes, order, allEdges) ==
  IF ps = <<>> THEN allEdges
  ELSE partnerEdges(
         Tail(ps), nodes, order,
         IF ~Has(nodes, Head(ps).id) THEN allEdges
         ELSE allPartnersForEach(Head(ps), allPartners(Head(ps)), nodes,
                                 order, allEdges))

\* allEdges of calculateLayout for the nodes it has placed
calculateEdges(ps, allNodes, order) ==
  partnerEdges(ps, allNodes, order, parentChildEdges(ps, allNodes, <<>>))

\* the pairs <<person.id, partnerId>> of two different persons of the
\* collection that the guard person.id < partnerId is evaluated for
ComparedPairs(ps) ==
  UNION {{<<ps[g].id, ps[h].id>> : h \in {j \in 1..Len(ps) :
                                            /\ ps[j].id # ps[g].id
                                            /\ Includes(allPartners(ps[g]),
                                                        ps[j].id)}} :
         g \in 1..Len(ps)}

\* every way the strings of the compared ids can sort, as the pairs
\* <<a, b>> with a before b: of two compared ids exactly one sorts first, and
\* the pairs fit one sorting of all the strings (among any of the ids there
\* is one that no other of them sorts before)
StringOrders(ps) ==
  LET pairs == ComparedPairs(ps)
      both == pairs \cup {<<pair[2], pair[1]>> : pair \in pairs}
      compared == {pair[1] : pair \in both}
  IN {order \in SUBSET both :
        /\ \A pair \in both :
             (pair \in order) # (<<pair[2], pair[1]>> \in order)
        /\ \A ids \in SUBSET compared :
             ids # {} => \E a \in ids : \A b \in ids : <<b, a>> \notin order}

(* --------------------------- layout inputs ----------------------------- *)

\* persons of a collection handed to the layout
LayoutPersons == 4

\* entries in all relationship arrays of such a collection
LayoutLinks == 2

\* persons and entries of a collection in which two persons have one id
SharedPersons == 3

SharedLinks == 1

\* entries in all relationship arrays of a collection the view is given by
\* the store
ViewLinks == 4

\* children of one parent, and families in one collection
MaxChildren == 3

MaxFamilies == 2

\* a person as loadFamilyTree and importFamilyTree return it for a document
\* that gives it no entry and no photo: the four arrays back-filled and the
\* key photo holding undefined
Unlinked(id) ==
  [id |-> id, name |-> "Alice", parentIds |-> <<>>, childIds |-> <<>>,
   partnerIds |-> <<>>, spouseIds |-> <<>>, photo |-> Undefined]

\* the four arrays in the order the Person type declares them
RelFieldSeq == <<"parentIds", "childIds", "partnerIds", "spouseIds">>

\* entries <<person, array, id>> to write, array by array: k entries for n
\* persons, each id one of 1..fresh (an array can hold an id twice: the file
\* is taken as it is)
LinkListsTo(n, k, fresh) ==
  {s \in [1..k -> (1..n) \X (1..4) \X (1..fresh)] :
     \A j \in 1..(k - 1) :
       \/ s[j][1] < s[j + 1][1]
       \/ s[j][1] = s[j + 1][1] /\ s[j][2] <= s[j + 1][2]}

\* the entries for n persons with the ids 1..n: each id the id of a person or
\* the id n + 1 that no person has
LinkLists(n, k) == LinkListsTo(n, k, n + 1)

\* the collection of n persons (ids 1..n, in this order) that holds the entries
RECURSIVE Linked(_, _)
Linked(n, s) ==
  IF s = <<>> THEN [i \in 1..n |-> Unlinked(i)]
  ELSE LET e == s[Len(s)]
       IN [Linked(n, SubSeq(s, 1, Len(s) - 1))
             EXCEPT ![e[1]][RelFieldSeq[e[2]]] = Append(@, e[3])]

\* the ids of n persons, named in the order in which they first appear: a
\* file is taken with the ids it has, so two persons can have one id.  Within
\* SharedPersons persons and SharedLinks entries every such list, beyond that
\* the list of n different ids.
IdLists(n, k) ==
  {ids \in [1..n -> 1..n] :
     /\ \A i \in 1..n :
          ids[i] = 1 \/ \E j \in 1..(i - 1) : ids[j] = ids[i] - 1
     /\ \/ \A i \in 1..n : ids[i] = i
        \/ n <= SharedPersons /\ k <= SharedLinks}

\* the first id that no person of the list has
Fresh(ids) == Cardinality({ids[i] : i \in DOMAIN ids}) + 1

\* the persons of ps, in their order, with the ids of the list
WithIds(ps, ids) == [i \in 1..Len(ps) |-> [ps[i] EXCEPT !.id = ids[i]]]

\* one parent (id first), a partner if wanted, and kids children, linked on
\* both sides as addRelationship links them
Family(first, partner, kids) ==
  LET extra == IF partner THEN 1 ELSE 0
      childId(c) == first + extra + c
  IN << [Unlinked(first) EXCEPT
           !.partnerIds = IF partner THEN <<first + 1>> ELSE <<>>,
           !.childIds = [c \in 1..kids |-> childId(c)]] >>
     \o (IF partner
           THEN << [Unlinked(first + 1) EXCEPT !.partnerIds = <<first>>] >>
           ELSE <<>>)
     \o [c \in 1..kids |-> [Unlinked(childId(c)) EXCEPT !.parentIds = <<first>>]]

\* collections of up to n families, one after the other
RECURSIVE Families(_)
Families(n) ==
  IF n = 0 THEN {<<>>}
  ELSE Families(n - 1)
       \cup {ps \o Family(Len(ps) + 1, partner, kids) :
               ps \in Families(n - 1),
               partner \in BOOLEAN, kids \in 0..MaxChildren}

FamilyInputs == Families(MaxFamilies)

\* FamilyTreeView computes the layout of the collection it was rendered with
CalculateLayout ==
  /\ mounted
  /\ last.op # "calculateLayout"
  /\ \E components \in {findConnectedComponents(rendered)},
        allNodes \in {calculateLayout(rendered)},
        order \in StringOrders(rendered) :
       last' = [op |-> "calculateLayout", id |-> 0,
                components |-> components,
                roots |-> [k \in 1..Len(components) |-> rootId(components[k])],
                nodes |-> allNodes,
                order |-> order,
                edges |-> calculateEdges(rendered, allNodes, order)]
  /\ UNCHANGED <<people, nextId, rendered, storage, queued, file, mounted>>

\* every collection a stored or imported file can hold, within the bounds:
\* the arrays are arbitrary (one-sided, cyclic, self or dangling entries) and
\* so are the ids (loadFamilyTree and importFamilyTree test only that each
\* person has an id and a name)
InitLayout ==
  /\ \E n \in 0..LayoutPersons, k \in 0..LayoutLinks :
       \E ids \in IdLists(n, k) :
         \E s \in LinkListsTo(n, k, Fresh(ids)) :
           rendered = WithIds(Linked(n, s), ids)
  /\ people = rendered
  /\ nextId = Len(rendered) + 1
  /\ storage = [NothingStored EXCEPT !.people = jsonPeople(rendered)]
  /\ last = [op |-> "init", id |-> 0]
  /\ queued = FALSE
  /\ file = NoFile
  /\ mounted = TRUE

\* the view rendered with any collection of the bounded input set
SpecLayout == InitLayout /\ [][CalculateLayout]_vars

\* the view of the store: handlers add persons and relationships, React
\* renders the provider (and saves), and the view lays the rendered
\* collection out
NextView ==
  \/ \E personData \in PlainData : AddPerson(personData)
  \/ \E personId \in KnownIds, relatedId \in KnownIds, type \in RelTypes :
       AddRelationshipWithin(ViewLinks, personId, relatedId, type)
  \/ \E setItemThrows \in BOOLEAN : Render(setItemThrows)
  \/ CalculateLayout

SpecView == Init /\ [][NextView]_vars

InitFamilies ==
  /\ rendered \in FamilyInputs
  /\ people = rendered
  /\ nextId = Len(rendered) + 1
  /\ storage = [NothingStored EXCEPT !.people = jsonPeople(rendered)]
  /\ last = [op |-> "init", id |-> 0]
  /\ queued = FALSE
  /\ file = NoFile
  /\ mounted = TRUE

\* the view rendered with collections made of whole families
SpecFamilies == InitFamilies /\ [][CalculateLayout]_vars

(* ------------------------- placement inputs ---------------------------- *)

\* nodes committed to laidOutNodesMap when findAvailablePosition is called
MaxPlaced == 5

\* the target at (0, 0), the eight slots the two offset lists reach from it
\* and the slot below it, and four places half a slot off
Cells ==
  << [x |-> 0, y |-> 0],      [x |-> 330, y |-> 0],   [x |-> -330, y |-> 0],
     [x |-> 0, y |-> 320],    [x |-> 0, y |-> -320],  [x |-> 330, y |-> 320],
     [x |-> -330, y |-> 320], [x |-> 165, y |-> 0],   [x |-> -165, y |-> 160],
     [x |-> 165, y |-> 320],  [x |-> 0, y |-> -160] >>

\* the elements of a set of numbers in increasing order
RECURSIVE Sorted(_)
Sorted(S) ==
  IF S = {} THEN <<>>
  ELSE LET m == CHOOSE m \in S : \A e \in S : m <= e
       IN <<m>> \o Sorted(S \ {m})

\* laidOutNodesMap holding one node in each of the chosen cells
NodesIn(chosen) ==
  [k \in 1..Len(Sorted(chosen)) |->
     [id |-> Sorted(chosen)[k],
      x |-> Cells[Sorted(chosen)[k]].x, y |-> Cells[Sorted(chosen)[k]].y]]

\* the id of the person the callback runs for (the others have the numbers
\* of their cells)
Straggler == Len(Cells) + 1

\* the calls of the callback with the target (0, 0): below the first placed
\* parent (at cell 5), above the first placed child (cell 4), and to the
\* right of the first placed partner (cell 3)
Anchors ==
  << [kind |-> "parent",  cell |-> 5, preferHorizontal |-> FALSE],
     [kind |-> "child",   cell |-> 4, preferHorizontal |-> FALSE],
     [kind |-> "partner", cell |-> 3, preferHorizontal |-> TRUE] >>

\* the component of the call: a person for every node, and the straggler
\* last; the straggler and its anchor list each other as the kind says, the
\* straggler and every other person as partners
PlacementPersons(chosen, anchor) ==
  LET others == Sorted(chosen \ {anchor.cell})
      anchored(kind) == IF anchor.kind = kind THEN <<anchor.cell>> ELSE <<>>
      listed(id, kind) ==
        IF id = anchor.cell /\ anchor.kind = kind THEN <<Straggler>> ELSE <<>>
  IN [k \in 1..Len(Sorted(chosen)) |->
        LET id == Sorted(chosen)[k]
        IN [Unlinked(id) EXCEPT
              !.parentIds  = listed(id, "child"),
              !.childIds   = listed(id, "parent"),
              !.partnerIds = IF id = anchor.cell /\ anchor.kind # "partner"
                               THEN <<>> ELSE <<Straggler>>]]
     \o << [Unlinked(Straggler) EXCEPT
              !.parentIds  = anchored("parent"),
              !.childIds   = anchored("child"),
              !.partnerIds = anchored("partner") \o others] >>

\* the missingPeople.forEach callback of the straggler is about to call
\* findAvailablePosition
InitPlacement ==
  /\ \E chosen \in SUBSET (1..Len(Cells)), a \in 1..Len(Anchors) :
       /\ Cardinality(chosen) \in 1..MaxPlaced
       /\ Anchors[a].cell \in chosen
       /\ rendered = PlacementPersons(chosen, Anchors[a])
       /\ last = [op |-> "placing", id |-> Straggler, nodes |-> NodesIn(chosen),
                  targetX |-> 0, targetY |-> 0,
                  preferHorizontal |-> Anchors[a].preferHorizontal]
  /\ people = rendered
  /\ nextId = Straggler + 1
  /\ storage = [NothingStored EXCEPT !.people = jsonPeople(rendered)]
  /\ queued = FALSE
  /\ file = NoFile
  /\ mounted = TRUE

FindAvailablePosition ==
  /\ last.op = "placing"
  /\ last' = [last EXCEPT
                !.op = "findAvailablePosition",
                !.nodes = Append(@, [id |-> last.id] @@
                            findAvailablePosition(last.nodes, last.targetX,
                                                  last.targetY,
                                                  last.preferHorizontal))]
  /\ UNCHANGED <<people, nextId, rendered, storage, queued, file, mounted>>

SpecPlacement == InitPlacement /\ [][FindAvailablePosition]_vars

\* persons of a component in which person 1 was left out by the hierarchical
\* placement, and entries in their relationship arrays
StragglerPersons == 3

StragglerLinks == 2

\* entries of person 1's arrays that name another person of the component,
\* and entries of the other persons' parentIds
StragglerLists(n, k) ==
  {s \in LinkLists(n, k) :
     \A j \in 1..k :
       \/ s[j][1] = 1 /\ s[j][3] \in 2..n
       \/ s[j][1] # 1 /\ s[j][2] = 1 /\ s[j][3] \in 1..n}

\* where the placement so far has put person id: nowhere (0), or one of two
\* places
Spot(id, choice) ==
  IF choice = 1 THEN [id |-> id, x |-> 330 * (id - 2), y |-> 0]
  ELSE [id |-> id, x |-> -330 * (id - 2), y |-> 320]

\* laidOutNodesMap for the choices made for persons 2..n
Placed(n, choice) ==
  LET placed == SelectSeq([i \in 1..(n - 1) |-> i + 1],
                          LAMBDA id : choice[id] # 0)
  IN [k \in 1..Len(placed) |-> Spot(placed[k], choice[placed[k]])]

\* the missingPeople.forEach callback is about to run for person 1
InitStraggler ==
  /\ \E n \in 2..StragglerPersons, k \in 0..StragglerLinks :
       \E s \in StragglerLists(n, k), choice \in [2..n -> 0..2] :
         /\ \E id \in 2..n : choice[id] # 0
         /\ rendered = Linked(n, s)
         /\ last = [op |-> "missing", id |-> 1, nodes |-> Placed(n, choice)]
  /\ people = rendered
  /\ nextId = Len(rendered) + 1
  /\ storage = [NothingStored EXCEPT !.people = jsonPeople(rendered)]
  /\ queued = FALSE
  /\ file = NoFile
  /\ mounted = TRUE

MissingPosition ==
  /\ last.op = "missing"
  /\ last' = [op |-> "missingPosition", id |-> last.id, nodes |-> last.nodes,
              position |-> missingPosition(rendered, Find(rendered, last.id),
                                           last.nodes)]
  /\ UNCHANGED <<people, nextId, rendered, storage, queued, file, mounted>>

SpecStraggler == InitStraggler /\ [][MissingPosition]_vars

\* the provider started on a browser that holds nothing or a one-person
\* document; handlers change the collection and every save succeeds
InitSaved ==
  /\ \E docPeople \in {<<>>} \cup {jsonPeople(<<Unlinked(1)>>)} :
       /\ people = loadFamilyTree([NothingStored EXCEPT !.people = docPeople])
       /\ storage = mountEffect([NothingStored EXCEPT !.people = docPeople],
                                people)
  /\ rendered = people
  /\ nextId = Len(people) + 1
  /\ last = [op |-> "init", id |-> 0]
  /\ queued = FALSE
  /\ file = NoFile
  /\ mounted = TRUE

NextSaved ==
  \/ \E personData \in PlainData : AddPerson(personData)
  \/ \E id \in KnownIds, updates \in PlainUpdates : UpdatePerson(id, updates)
  \/ \E id \in KnownIds : DeletePerson(id)
  \/ Render(FALSE)

\* React renders again after every state update and runs the effects of the
\* render before it handles another event
SpecSaved == InitSaved /\ [][NextSaved]_vars /\ WF_vars(Render(FALSE))

(* ---------------------- export and import inputs ----------------------- *)

\* persons of an exported collection, and entries in their arrays
ExportPersons == 2

ExportLinks == 1

\* the ids that the store callbacks address while a file is out: 1..MaxEdited
MaxEdited == 1

\* what the form's photo field gives: undefined, or a data URL
Photos == {Undefined, "data:image/png;base64,AAAA"}

\* the fields of every person the tree holds
AllFields == PersonFields \cup OptionalFields

\* collections of persons made by the form (notes left empty) and linked
InitExport ==
  /\ \E n \in 0..ExportPersons, k \in 0..ExportLinks :
       \E s \in LinkLists(n, k), photos \in [1..n -> Photos] :
         rendered = [i \in 1..n |->
                       Spread(Linked(n, s)[i],
                              [notes |-> Undefined, photo |-> photos[i]])]
  /\ people = rendered
  /\ nextId = Len(rendered) + 1
  /\ last = [op |-> "init", id |-> 0]
  /\ storage = IF rendered = <<>> THEN NothingStored
               ELSE saveFamilyTree(NothingStored, rendered, FALSE)
  /\ queued = FALSE
  /\ file = NoFile
  /\ mounted = TRUE

\* a component calls exportFamilyTree with the collection of its render and
\* the browser downloads the document
ExportFamilyTree ==
  /\ ~file.downloaded
  /\ file' = [downloaded |-> TRUE, people |-> exportFamilyTree(rendered),
              exported |-> rendered, reading |-> FALSE]
  /\ last' = [op |-> "exportFamilyTree", id |-> 0]
  /\ UNCHANGED <<people, nextId, rendered, storage, queued, mounted>>

\* importFamilyTree(file) with the downloaded file: reader.readAsText starts
\* and the promise is pending
ImportFamilyTree ==
  /\ file.downloaded
  /\ ~file.reading
  /\ last.op # "importFamilyTree"
  /\ file' = [file EXCEPT !.reading = TRUE]
  /\ last' = [op |-> "readAsText", id |-> 0]
  /\ UNCHANGED <<people, nextId, rendered, storage, queued, mounted>>

\* reader.onload: the text is parsed and the promise resolves with `imported`
ReaderOnload ==
  /\ file.reading
  /\ file' = [file EXCEPT !.reading = FALSE]
  /\ last' = [op |-> "importFamilyTree", id |-> 0,
              people |-> importFamilyTree(file.people)]
  /\ UNCHANGED <<people, nextId, rendered, storage, queued, mounted>>

\* reader.onerror: the read failed and the promise is rejected with 'Failed
\* to read file'; no collection is returned
ReaderOnerror ==
  /\ file.reading
  /\ file' = [file EXCEPT !.reading = FALSE]
  /\ last' = [op |-> "rejected", id |-> 0, error |-> "Failed to read file"]
  /\ UNCHANGED <<people, nextId, rendered, storage, queued, mounted>>

\* export, import, and the store callbacks that run after the download and
\* before the promise settles (the renders they queue touch neither the file
\* nor the reader and are steps of SpecRender)
NextExport ==
  \/ ExportFamilyTree
  \/ ImportFamilyTree
  \/ ReaderOnload
  \/ ReaderOnerror
  \/ \E id \in 1..MaxEdited, updates \in PlainUpdates :
       /\ file.downloaded /\ last.op # "importFamilyTree"
       /\ UpdatePerson(id, updates)
  \/ \E id \in 1..MaxEdited :
       /\ file.downloaded /\ last.op # "importFamilyTree"
       /\ DeletePerson(id)

SpecExport == InitExport /\ [][NextExport]_vars

(* ------------------------------- claims -------------------------------- *)

\* the array addRelationship and removeRelationship pair with `${type}Ids`
ReciprocalKey(type) ==
  CASE type = "parent"  -> "childIds"
    [] type = "child"   -> "parentIds"
    [] type = "partner" -> "partnerIds"
    [] type = "spouse"  -> "spouseIds"

\* the operations that the symmetry property allows to take a link away
Removers == {"removeRelationship", "deletePerson"}

\* C1: for all persons A, B of the collection (A = B included) and every type,
\* right after addRelationship(A,B,T) the reciprocal array of B holds A, and
\* a reciprocal entry stays until removeRelationship or deletePerson runs.
C1_ReciprocalKept ==
  [][ /\ \A a \in KnownIds, b \in KnownIds, t \in RelTypes :
           (AddRelationship(a, b, t) /\ Present(people, a) /\ Present(people, b))
             => Lists(people', b, ReciprocalKey(t), a)
      /\ \A a \in KnownIds, b \in KnownIds, t \in RelTypes :
           (Lists(people, b, ReciprocalKey(t), a) /\ last'.op \notin Removers)
             => Lists(people', b, ReciprocalKey(t), a)
    ]_vars

\* C2: in every reachable state B is in A.parentIds exactly when A is in
\* B.childIds, and partnerIds and spouseIds are symmetric.
C2_Symmetric ==
  \A i \in 1..Len(people), j \in 1..Len(people) :
    /\ Includes(people[i].parentIds, people[j].id)
         <=> Includes(people[j].childIds, people[i].id)
    /\ Includes(people[i].partnerIds, people[j].id)
         <=> Includes(people[j].partnerIds, people[i].id)
    /\ Includes(people[i].spouseIds, people[j].id)
         <=> Includes(people[j].spouseIds, people[i].id)

\* C3: right after deletePerson(A) no person of the collection has A's id
\* and no remaining person holds A's id in any of its four arrays.
C3_DeleteCascades ==
  last.op = "deletePerson" =>
    /\ ~Present(people, last.id)
    /\ \A i \in 1..Len(people), key \in RelFields :
         ~Includes(people[i][key], last.id)

\* C3 witness: deletePerson ran on an id that another person referenced,
\* and that other person is still in the collection.
C3_Witness ==
  /\ last.op = "deletePerson"
  /\ last.cascaded
  /\ Len(people) >= 1

\* C4: addRelationship leaves the collection unchanged when personId or
\* relatedId is not the id of a person of the collection.
C4_MissingIdNoOp ==
  [][ \A a \in KnownIds, b \in KnownIds, t \in RelTypes :
        (AddRelationship(a, b, t)
           /\ (~Present(people, a) \/ ~Present(people, b)))
          => people' = people
    ]_vars

\* C5: in every reachable state every id held in a relationship array is the
\* id of a person of the collection.
C5_NoDangling ==
  \A i \in 1..Len(people), key \in RelFields :
    \A k \in 1..Len(people[i][key]) : Present(people, people[i][key][k])

\* C6: after addRelationship(A,B,T) has run, running the same call again
\* changes nothing (twice in a row is the same as once).
C6_Idempotent ==
  [][ \A a \in KnownIds, b \in KnownIds, t \in RelTypes :
        AddRelationship(a, b, t)
          => addRelationshipUpdater(people', a, b, t) = people'
    ]_vars

\* C7: the state that follows addRelationship(personId, relatedId, type) never
\* shows one side without the other: relatedId is in personId's array exactly
\* when personId is in relatedId's reciprocal array.
C7_BothSidesInOneStep ==
  [][ \A a \in KnownIds, b \in KnownIds, t \in RelTypes :
        AddRelationship(a, b, t)
          => (Lists(people', a, RelationshipKey(t), b)
                <=> Lists(people', b, ReciprocalKey(t), a))
    ]_vars

\* C8: removeRelationship(personId, relatedId, type) takes relatedId out of
\* personId's array and personId out of relatedId's reciprocal array
\* (personId = relatedId included) and changes nothing when neither is there.
C8_RemoveBothSides ==
  [][ \A a \in KnownIds, b \in KnownIds, t \in RelTypes :
        RemoveRelationship(a, b, t)
          => /\ ~Lists(people', a, RelationshipKey(t), b)
             /\ ~Lists(people', b, ReciprocalKey(t), a)
             /\ (~Lists(people, a, RelationshipKey(t), b)
                  /\ ~Lists(people, b, ReciprocalKey(t), a))
                  => people' = people
    ]_vars

\* C9: in every reachable state no person holds its own id in any of its
\* four relationship arrays.
C9_NoSelfRelationship ==
  \A i \in 1..Len(people), key \in RelFields :
    ~Includes(people[i][key], people[i].id)

\* C10: no two persons of the collection share an id, and an operation that
\* neither adds nor deletes a person leaves every person's id as it was
\* (updatePerson with an id among its fields included).
C10_IdsUniqueAndFixed ==
  [][ /\ \A i \in 1..Len(people'), j \in 1..Len(people') :
           people'[i].id = people'[j].id => i = j
      /\ last'.op \in {"updatePerson", "addRelationship", "removeRelationship"}
           => /\ Len(people') = Len(people)
              /\ \A i \in 1..Len(people) : people'[i].id = people[i].id
    ]_vars

\* C11: updatePerson(id, fields) gives the person whose id matches the listed
\* fields and leaves its other fields as they were, leaves every other person
\* as it was, and leaves the whole collection as it was when no person has
\* that id.
C11_UpdateFrame ==
  [][ \A updates \in PlainUpdates :
        (last'.op = "updatePerson" /\ UpdatePerson(last'.id, updates))
          => /\ Len(people') = Len(people)
             /\ \A i \in 1..Len(people) :
                  IF people[i].id = last'.id
                    THEN \A f \in PersonFields :
                           people'[i][f] = IF f \in DOMAIN updates
                                             THEN updates[f]
                                             ELSE people[i][f]
                    ELSE people'[i] = people[i]
             /\ ~Present(people, last'.id) => people' = people
    ]_vars

\* C11 witness: updatePerson changed a person that holds a relationship while
\* a second person is in the collection.
C11_Witness ==
  /\ last.op = "updatePerson"
  /\ last.changed
  /\ Len(people) = 2
  /\ \E i \in 1..Len(people), key \in RelFields :
       people[i].id = last.id /\ people[i][key] # <<>>

\* C12: deletePerson(id), when no person of the collection has that id, leaves
\* the collection exactly as it was, every relationship array included.
C12_DeleteMissingNoOp ==
  [][ \A id \in KnownIds :
        (DeletePerson(id) /\ ~Present(people, id)) => people' = people
    ]_vars

\* C13: addPerson(data) puts exactly one person at the end of the collection,
\* with an id that no existing person has, the arrays that data supplies and
\* an empty array for each one it does not supply; the person it returns is
\* that person, and the persons that were there are unchanged.
C13_AddAppendsFresh ==
  [][ \A personData \in PlainData :
        (last'.op = "addPerson" /\ AddPerson(personData))
          => /\ Len(people') = Len(people) + 1
             /\ SubSeq(people', 1, Len(people)) = people
             /\ LET added == people'[Len(people')]
                IN /\ \A i \in 1..Len(people) : people[i].id # added.id
                   /\ \A f \in RelFields :
                        added[f] = IF f \in DOMAIN personData
                                     THEN personData[f] ELSE <<>>
                   /\ added.name = personData.name
                   /\ last'.id = added.id
    ]_vars

\* C13 witness: addPerson ran on a collection whose one person holds a
\* relationship, and the new person is the second of two.
C13_Witness ==
  /\ last.op = "addPerson"
  /\ Len(people) = 2
  /\ people[2].id = last.id
  /\ \E key \in RelFields : people[1][key] # <<>>

\* C14: getPerson(id) answers with a person exactly when the collection, with
\* every mutation issued before the call applied, holds a person with that id
\* (the addPerson of the same handler included).
C14_GetPersonCurrent ==
  last.op = "getPerson" => (last.found <=> Present(people, last.id))

\* no two persons of the collection have the same id (the Store invariant
\* of unique ids)
UniqueIds(ps) ==
  \A i \in 1..Len(ps), j \in 1..Len(ps) : ps[i].id = ps[j].id => i = j

\* the hierarchical placement left a person of some component without a
\* position (the loop over missingPeople had someone to place)
SomeoneMissing(ps, components) ==
  \E k \in 1..Len(components) :
    Len(missingPeople(components[k],
                      layoutFromMap(rootId(components[k]),
                                    componentTreeMap(ps, components[k])))) > 0

\* C15: for every collection of persons with distinct ids, whatever its
\* relationship arrays hold (cyclic parent chains, partner-only groups, ids
\* of no person, an id listed twice), calculateLayout ends and returns
\* exactly one node for each person; no person is without a node and no id
\* is on two.
C15_OneNodePerPerson ==
  (last.op = "calculateLayout" /\ UniqueIds(rendered)) =>
    /\ Len(last.nodes) = Len(rendered)
    /\ \A i \in 1..Len(rendered) :
         Cardinality({k \in 1..Len(last.nodes) :
                        last.nodes[k].id = rendered[i].id}) = 1

\* C15 witness: the layout of a full-size collection of persons with
\* distinct ids in which the hierarchical placement left someone out and an
\* array holds the id of no person.
C15_Witness ==
  /\ last.op = "calculateLayout"
  /\ UniqueIds(rendered)
  /\ Len(rendered) = LayoutPersons
  /\ SomeoneMissing(rendered, last.components)
  /\ \E i \in 1..Len(rendered), key \in RelFields :
       \E h \in 1..Len(rendered[i][key]) :
         ~Present(rendered, rendered[i][key][h])

\* the 180 x 120 boxes of two nodes share a point
BoxesOverlap(a, b) ==
  /\ a.x < b.x + nodeWidth
  /\ b.x < a.x + nodeWidth
  /\ a.y < b.y + nodeHeight
  /\ b.y < a.y + nodeHeight

\* C16: no two distinct nodes of one layout have overlapping boxes, whether
\* they are in one component or in two.
C16_NoOverlap ==
  last.op = "calculateLayout" =>
    \A i \in 1..Len(last.nodes), j \in 1..Len(last.nodes) :
      i # j => ~BoxesOverlap(last.nodes[i], last.nodes[j])

\* the component (its index) that holds the person with this id
ComponentOf(components, id) ==
  CHOOSE k \in 1..Len(components) : id \in componentPersonIds(components[k])

\* C18: whenever a person A lists the id of a person B in one of its four
\* arrays, A and B are in the same component, whatever their order in the
\* collection and whether or not B lists A.
C18_Undirected ==
  last.op = "calculateLayout" =>
    \A i \in 1..Len(rendered), j \in 1..Len(rendered) :
      (\E key \in RelFields : Includes(rendered[i][key], rendered[j].id))
        => ComponentOf(last.components, rendered[i].id)
             = ComponentOf(last.components, rendered[j].id)

\* positions in the collection of the persons of a component (of two
\* persons with one id the component holds the first)
PlacesOf(ps, component) ==
  {i \in 1..Len(ps) :
     /\ ps[i].id \in componentPersonIds(component)
     /\ \A j \in 1..(i - 1) : ps[j].id # ps[i].id}

\* the first of a non-empty set of positions
FirstOf(places) == CHOOSE i \in places : \A j \in places : i <= j

\* C19 as stated: the root of each component is the member that comes first
\* in the collection among the members with no parentIds, and the member
\* that comes first in the collection when every member has parentIds.
C19_RootCollectionOrder ==
  last.op = "calculateLayout" =>
    \A k \in 1..Len(last.components) :
      LET places == PlacesOf(rendered, last.components[k])
          parentless == {i \in places : rendered[i].parentIds = <<>>}
      IN last.roots[k] = IF parentless # {}
                           THEN rendered[FirstOf(parentless)].id
                           ELSE rendered[FirstOf(places)].id

\* C19 amended: the root of each component is the member the traversal found
\* first among the members with no parentIds, and the member that comes
\* first in the collection when every member has parentIds.
C19_RootDiscoveryOrder ==
  last.op = "calculateLayout" =>
    \A k \in 1..Len(last.components) :
      LET component == last.components[k]
          parentless == {i \in 1..Len(component) :
                           component[i].parentIds = <<>>}
      IN last.roots[k] = IF parentless # {}
                           THEN component[FirstOf(parentless)].id
                           ELSE rendered[FirstOf(PlacesOf(rendered, component))].id

\* C19 witness: a component whose first member in the collection has a
\* parent, with two members without parents that the traversal found in the
\* order opposite to their order in the collection.
C19_Witness ==
  /\ last.op = "calculateLayout"
  /\ \E k \in 1..Len(last.components) :
       LET component == last.components[k]
       IN /\ component[1].parentIds # <<>>
          /\ \E i \in 1..Len(component), j \in 1..Len(component) :
               /\ i < j
               /\ component[i].parentIds = <<>>
               /\ component[j].parentIds = <<>>
               /\ component[j].id < component[i].id
               /\ last.roots[k] = component[i].id

\* C20: every node of a later component is to the right of the right edge of
\* every node of every earlier component by the inter-component gap (400) or
\* more.
C20_ComponentsApart ==
  last.op = "calculateLayout" =>
    \A i \in 1..Len(last.nodes), j \in 1..Len(last.nodes) :
      ComponentOf(last.components, last.nodes[i].id)
        < ComponentOf(last.components, last.nodes[j].id)
        => last.nodes[j].x >= last.nodes[i].x + nodeWidth + componentSpacing

\* the places of a collection, as a set
Places(ps) == 1..Len(ps)

\* C25: after any sequence of addPerson, updatePerson, deletePerson,
\* addRelationship and removeRelationship the persons still in the
\* collection stand in the order in which they were added (ids are issued
\* in increasing order, so that is the order of their ids): no operation
\* reorders them, and the person addPerson has added is the last one.
C25_InsertionOrder ==
  /\ \A i \in Places(people), j \in Places(people) :
       i < j => people[i].id < people[j].id
  /\ last.op = "addPerson" =>
       /\ Len(people) > 0
       /\ people[Len(people)].id = last.id

\* C25 witness: deletePerson took the first of three persons away and the
\* two it left, one of them listed by the other, are still in the collection
C25_Witness ==
  /\ last.op = "deletePerson"
  /\ Len(people) = 2
  /\ \A i \in Places(people) : last.id < people[i].id
  /\ Links(people) > 0

\* ids is a prefix of more
IsPrefix(ids, more) ==
  /\ Len(ids) <= Len(more)
  /\ \A h \in 1..Len(ids) : more[h] = ids[h]

\* C29: a mutation issued before React has rendered again is applied to the
\* result of the mutations issued before it, not to the collection of the
\* render: addPerson keeps every person queued so far and puts the new one
\* after them, and addRelationship keeps every person and every entry queued
\* so far.
C29_QueuedInOrder ==
  [][/\ last'.op = "addPerson"
          => /\ Len(people') = Len(people) + 1
             /\ SubSeq(people', 1, Len(people)) = people
             /\ people'[Len(people')].id = last'.id
     /\ last'.op = "addRelationship"
          => /\ Len(people') = Len(people)
             /\ \A i \in Places(people) :
                  /\ people'[i].id = people[i].id
                  /\ people'[i].name = people[i].name
                  /\ \A key \in RelFields :
                       IsPrefix(people[i][key], people'[i][key])]_vars

\* C29 witness: two addPerson calls and two addRelationship calls (or one
\* that wrote both sides) were issued and React has not rendered since
C29_Witness ==
  /\ last.op = "addRelationship"
  /\ rendered = <<>>
  /\ Len(people) = 2
  /\ Links(people) = 2

\* C30: for distinct persons A and B of the collection, in every state,
\* addRelationship(A, B, 'parent') gives the collection
\* addRelationship(B, A, 'child') gives, and addRelationship(A, B, 'partner')
\* and addRelationship(A, B, 'spouse') give the collections the calls with
\* the arguments swapped give.
C30_MirrorCalls ==
  \A i \in Places(people), j \in Places(people) :
    LET A == people[i].id
        B == people[j].id
    IN A # B =>
         /\ addRelationshipUpdater(people, A, B, "parent")
              = addRelationshipUpdater(people, B, A, "child")
         /\ addRelationshipUpdater(people, A, B, "partner")
              = addRelationshipUpdater(people, B, A, "partner")
         /\ addRelationshipUpdater(people, A, B, "spouse")
              = addRelationshipUpdater(people, B, A, "spouse")

\* C30 witness: two persons are in the collection, neither the parent of
\* the other yet, after an addRelationship call
C30_Witness ==
  /\ last.op = "addRelationship"
  /\ Len(people) = 2
  /\ people[1].id # people[2].id
  /\ \A i \in Places(people) : people[i].parentIds = <<>>
  /\ addRelationshipUpdater(people, people[1].id, people[2].id, "parent")
       # people

\* the places of the edges of the last layout with these endpoints and type
EdgesBetween(source, target, type) ==
  {k \in 1..Len(last.edges) :
     /\ last.edges[k].source = source
     /\ last.edges[k].target = target
     /\ last.edges[k].type = type}

\* a has b in partnerIds or in spouseIds
ListsPartner(ps, a, b) ==
  Lists(ps, a, "partnerIds", b) \/ Lists(ps, a, "spouseIds", b)

\* C21: calculateLayout emits exactly one partner edge for every unordered
\* pair {A, B} of persons that have a node and are linked through partnerIds
\* or spouseIds (on either side): never two, also when the pair is linked
\* both as partner and as spouse, and never none; and no two edges have the
\* same id.
C21_OnePartnerEdge ==
  last.op = "calculateLayout" =>
    /\ \A i \in Places(rendered), j \in Places(rendered) :
         LET A == rendered[i].id
             B == rendered[j].id
         IN (/\ A # B
             /\ Has(last.nodes, A) /\ Has(last.nodes, B)
             /\ ListsPartner(rendered, A, B) \/ ListsPartner(rendered, B, A))
              => Cardinality(EdgesBetween(A, B, "horizontal")
                             \cup EdgesBetween(B, A, "horizontal")) = 1
    /\ \A k \in 1..Len(last.edges), h \in 1..Len(last.edges) :
         last.edges[k].id = last.edges[h].id => k = h

\* no array childIds of the collection lists an id twice (childIds is a set)
ChildIdsAreSets(ps) ==
  \A i \in 1..Len(ps) :
    \A h \in 1..Len(ps[i].childIds), g \in 1..Len(ps[i].childIds) :
      ps[i].childIds[h] = ps[i].childIds[g] => h = g

\* C22: for a collection of persons with distinct ids whose childIds arrays
\* list no id twice, calculateLayout emits exactly one edge parent -> child
\* for every pair (parent, child) that is in a person's childIds and has a
\* node at both ends, no other parent-child edge, and no edge at all with an
\* end that has no node (a child id that is not in the collection).
C22_ParentChildEdges ==
  (/\ last.op = "calculateLayout"
   /\ UniqueIds(rendered)
   /\ ChildIdsAreSets(rendered)) =>
    /\ \A i \in Places(rendered) :
         \A h \in 1..Len(rendered[i].childIds) :
           LET parent == rendered[i].id
               child == rendered[i].childIds[h]
           IN (Has(last.nodes, parent) /\ Has(last.nodes, child))
                => Cardinality(EdgesBetween(parent, child, "smoothstep")) = 1
    /\ \A k \in 1..Len(last.edges) :
         /\ Has(last.nodes, last.edges[k].source)
         /\ Has(last.nodes, last.edges[k].target)
         /\ last.edges[k].type = "smoothstep"
              => Lists(rendered, last.edges[k].source, "childIds",
                       last.edges[k].target)

\* C22 witness: a layout of a collection of persons with distinct ids in
\* which one person's childIds holds a person of the collection and an id
\* that is not in it
C22_Witness ==
  /\ last.op = "calculateLayout"
  /\ UniqueIds(rendered)
  /\ ChildIdsAreSets(rendered)
  /\ \E i \in Places(rendered) :
       /\ \E h \in 1..Len(rendered[i].childIds) :
            Present(rendered, rendered[i].childIds[h])
       /\ \E h \in 1..Len(rendered[i].childIds) :
            ~Present(rendered, rendered[i].childIds[h])
  /\ \E k \in 1..Len(last.edges) : last.edges[k].type = "smoothstep"

\* the node laidOutNodesMap holds for a placed person
Node(id) == NodeOf(last.nodes, id)

\* the persons in ids that laidOutNodesMap holds
PlacedAmong(ids) == {ids[h] : h \in {g \in 1..Len(ids) : Has(last.nodes, ids[g])}}

\* the right edge of the widest extent placed so far
Extent == MathMax({last.nodes[i].x + nodeWidth : i \in 1..Len(last.nodes)})

\* C26: a person the hierarchical placement left out is anchored by strict
\* priority: (a) to a placed parent if it has one (in the parent's column,
\* one level below the parent or one level above a placed child); (b) else to
\* a placed child (above it, or to the right of the rightmost other placed
\* parent of that child); (c) else to the right of a placed partner or
\* spouse; (d) else in the default slot to the right of the widest extent.
\* The position is the one findAvailablePosition gives for that target.
C26_AnchorPriority ==
  last.op = "missingPosition" =>
    LET person == Find(rendered, last.id)
        parents == PlacedAmong(person.parentIds)
        children == PlacedAmong(person.childIds)
        partners == PlacedAmong(allPartners(person))
        level == nodeHeight + 200
        beside == nodeWidth + 150
    IN IF parents # {}
         THEN \E p \in parents :
                \E y \in {Node(p).y + level}
                         \cup {Node(c).y - level : c \in children} :
                  last.position
                    = findAvailablePosition(last.nodes, Node(p).x, y, FALSE)
       ELSE IF children # {}
         THEN \E c \in children :
                LET others == PlacedAmong(Find(rendered, c).parentIds)
                                \ {person.id}
                IN IF others # {}
                     THEN \E q \in others :
                            /\ \A o \in others : Node(o).x <= Node(q).x
                            /\ last.position
                                 = findAvailablePosition(
                                     last.nodes, Node(q).x + beside,
                                     Node(q).y, TRUE)
                     ELSE last.position
                            = findAvailablePosition(
                                last.nodes, Node(c).x, Node(c).y - level,
                                FALSE)
       ELSE IF partners # {}
         THEN \E q \in partners :
                last.position
                  = findAvailablePosition(last.nodes, Node(q).x + beside,
                                          Node(q).y, TRUE)
       ELSE last.position
              = findAvailablePosition(
                  last.nodes, Extent + beside,
                  MathMax({last.nodes[i].y : i \in 1..Len(last.nodes)}),
                  FALSE)

\* C26 witness: the person placed has a placed parent and a placed child
\* (and went to the parent's column)
C26_Witness ==
  /\ last.op = "missingPosition"
  /\ PlacedAmong(Find(rendered, last.id).parentIds) # {}
  /\ PlacedAmong(Find(rendered, last.id).childIds) # {}
  /\ PlacedAmong(Find(rendered, last.id).parentIds)
       \cap PlacedAmong(Find(rendered, last.id).childIds) = {}

\* the 180 x 120 box at (x, y) comes within the padding of the box of node
Crowds(x, y, node) ==
  /\ x < node.x + nodeWidth + padding
  /\ node.x < x + nodeWidth + padding
  /\ y < node.y + nodeHeight + padding
  /\ node.y < y + nodeHeight + padding

\* C27: with at least one node committed, the position findAvailablePosition
\* returns (the target, one of the four probed offsets, or the fallback to
\* the right of the rightmost node) comes within the 10-unit padding of no
\* committed node.
C27_PositionFree ==
  last.op = "findAvailablePosition" =>
    LET position == last.nodes[Len(last.nodes)]
    IN \A k \in 1..(Len(last.nodes) - 1) :
         ~Crowds(position.x, position.y, last.nodes[k])

\* C27 witness: the target and the four offsets were all taken and the
\* position returned is the fallback
C27_Witness ==
  /\ last.op = "findAvailablePosition"
  /\ Len(last.nodes) > 1
  /\ last.nodes[Len(last.nodes)].x > 330

\* C23: exporting a collection and importing the exported document gives a
\* collection equal to the original: the same persons in the same order,
\* each with the same id, the same value in every field (a field that holds
\* undefined reads as undefined after the round trip, whether or not the key
\* is there) and the same four relationship arrays.
C23_ExportImportRoundTrip ==
  last.op = "importFamilyTree" =>
    /\ Len(last.people) = Len(file.exported)
    /\ \A i \in Places(file.exported) :
         \A f \in AllFields \cup DOMAIN last.people[i] :
           Get(last.people[i], f) = Get(file.exported[i], f)

\* C23 witness: a collection with a person that has a photo, a person that
\* has none and an entry in a relationship array went through export and
\* import, and the store was changed before the import resolved
C23_Witness ==
  /\ last.op = "importFamilyTree"
  /\ \E i \in Places(file.exported) : file.exported[i].photo # Undefined
  /\ \E i \in Places(file.exported) : file.exported[i].photo = Undefined
  /\ Links(file.exported) > 0
  /\ people # file.exported

\* C24: when the save attempt of a render fails (setItem throws, e.g. quota
\* exceeded), saveFamilyTree raises an error to its caller, the stored
\* document is the one stored before, and the Store still holds, unchanged,
\* the collection that was being saved: the provider is mounted, its
\* collection is the one it had and that is the collection rendered.
C24_FailedSaveRaises ==
  [][(last'.op = "render" /\ last'.setItemThrows) =>
       /\ storage'.raised
       /\ storage'.people = storage.people
       /\ storage'.written = storage.written
       /\ mounted'
       /\ people' = people
       /\ rendered' = people']_vars

\* C28: the collection loaded at start-up is not written back before the
\* first change (the first write follows a queued update); when no update
\* is pending the stored document holds the in-memory collection; and every
\* queued update is followed by a render whose save leaves the document
\* equal to the collection (saves succeed and React renders after every
\* update).
C28_EventuallySaved ==
  /\ ~storage.written
  /\ [][(~storage.written /\ storage'.written) => queued]_vars
  /\ [](~queued => storage.people = jsonPeople(people))
  /\ queued ~> (~queued /\ storage.people = jsonPeople(people))

\* C28 witness: a one-person document was loaded, a person was added and
\* the collection of two was saved
C28_Witness ==
  /\ last.op = "render"
  /\ storage.written
  /\ Len(people) = 2
  /\ storage.people = jsonPeople(people)
  /\ Get(people[1], "photo") = Undefined
  /\ "photo" \in DOMAIN people[1]

====
